---- MODULE Spec2Model ----
(***************************************************************************)
(* A model of loglog's RemoteTransport (src/src/transports/               *)
(* RemoteTransport.ts), of the Logger core (src/src/index.ts: level        *)
(* methods, transport fan-out, withContext, time, cleanup) and of the      *)
(* request middlewares' redaction and response logging.                    *)
(*                                                                         *)
(* Entries are the integers 1..MaxLog, numbered in the order log() was     *)
(* called, so the original log order of two entries is the order of their  *)
(* numbers.  One request awaiting its response is one batch in inflight.   *)
(***************************************************************************)
EXTENDS Integers, Sequences, FiniteSets, TLC

\* ------------------------------------------------------------- bounds
MaxLog == 3            \* entries logged in one behaviour
MaxBatch == 2          \* largest configured batchSize
MaxMaxRetries == 2     \* largest configured maxRetries
MaxTimers == 2         \* retry timers pending at the same time
MaxTransports == 3     \* transports registered on the Logger
MaxCalls == 2          \* level-method calls on the Logger
MaxFields == 2         \* length of a list of sensitive field names
MaxWrites == 2         \* calls of response-writing methods for one request
MaxLoggers == 2        \* Logger instances (the first and those of withContext)
MaxOwnLog == 2         \* entries logged on those Loggers altogether

\* -------------------------------------------------- program constants
DefaultBatchSize == 50
DefaultMaxRetries == 3

Entries == 1..MaxLog

VARIABLES
  config,        \* the ClientConfig handed to the constructor
  queue,         \* RemoteTransport.queue
  timerActive,   \* the setInterval timer is armed (not yet cleared)
  retryCount,    \* RemoteTransport.retryCount
  inflight,      \* batches of the flush() calls suspended at await fetch
  retryTimers,   \* number of pending setTimeout retry flushes
  cleanupPc,     \* "idle" | "awaiting" | "resolved": the cleanup() promise
  cleanupBatch,  \* the batch of the flush() that cleanup() awaits
  nextId,        \* the number the next logged entry gets
  acked,         \* entries of the requests answered 2xx, in acknowledgement order
  fallback,      \* entries printed by console.error('[Remote Log Failed]', entry)
  sendCount,     \* per entry: requests dispatched that carried it
  failCount,     \* per entry: failed requests that carried it
  lastOp,        \* the handler that ran last
  burst,         \* consecutive log() calls since a log() that found the queue empty
  cleanupQuiet,  \* no log() call and no failed request since cleanup() was called
  lastResponse,  \* how the request completed whose completion was the last step
  counting,      \* whether this behaviour keeps sendCount and failCount
  lgConfig,      \* Logger.config: the level threshold and enableConsole
  transports,    \* Logger.transports, in registration order
  invoked,       \* per transport: the entries its log() was called with
  calls,         \* level-method calls made on the Logger so far
  lastCall,      \* the level and the outcome of the last level-method call
  lastOrder,     \* the transports the last level-method call invoked, in order
  defaultContext,    \* Logger.defaultContext
  child,         \* the Logger the last withContext() call returned
  emitted,       \* the entry of the last call made on that Logger
  lcPc,          \* Logger.cleanup(): "idle", the transport it awaits, "done" or "rejected"
  lcLog,         \* Logger.cleanup(): the cleanup() calls started and settled, in order
  adapter,       \* which middleware handles the request
  request,       \* the body (or headers, or query) object of the request
  sensitive,     \* the configured sensitive field names
  logged,        \* the copy of the object logged with 'Incoming request'
  isResponseLogged,  \* the flag of logResponseOnce
  completions,   \* completion/failure entries logged for the request
  writes,        \* calls of the wrapped response-writing methods so far
  loggers,       \* the Logger instances made so far, in order of construction
  remotes,       \* the RemoteTransport instances made so far (the heap)
  loggedOn,      \* loggedOn[e]: the Logger that entry e was logged on
  ownOp          \* the last operation on a Logger, and the Logger

tvars == <<config, queue, timerActive, retryCount, inflight, retryTimers,
           cleanupPc, cleanupBatch, nextId, acked, fallback, sendCount,
           failCount, lastOp, burst, cleanupQuiet, lastResponse, counting>>

cvars == <<defaultContext, child, emitted>>

kvars == <<lcPc, lcLog>>

avars == <<adapter, request, sensitive, logged, isResponseLogged, completions, writes>>

ovars == <<loggers, remotes, loggedOn, ownOp>>

lvars == <<lgConfig, transports, invoked, calls, lastCall, lastOrder, cvars, kvars, avars, ovars>>

vars == <<tvars, lvars>>

\* ------------------------------------------------------------ helpers
Range(s) == {s[i] : i \in 1..Len(s)}

Min(a, b) == IF a <= b THEN a ELSE b

Max(a, b) == IF a >= b THEN a ELSE b

\* entries of all requests awaiting a response
InFlightEntries == UNION {Range(b) : b \in inflight}

\* `this.config.batchSize || 50`
EffBatchSize == IF config.batchSize = 0 THEN DefaultBatchSize ELSE config.batchSize

\* `this.config.maxRetries || 3`
EffMaxRetries == IF config.maxRetries = 0 THEN DefaultMaxRetries ELSE config.maxRetries

\* faulty variant of RemoteDisabled: the guard of log() is missing
RemoteNeverDisabled(cfg) == FALSE

\* log(): `if (!this.config.enableRemote) return;`
RemoteDisabled(cfg) == ~cfg.enableRemote

\* faulty variant of ClearInterval: the interval timer stays armed
KeepInterval(armed) == armed

\* cleanup(): `clearInterval(this.timer)`: whether the timer is armed afterwards
ClearInterval(armed) == FALSE

\* faulty variant of RetryTimersAfterCleanup: cleanup() cancels them
RetryTimersCancelled(n) == IF n > 0 THEN 0 ELSE n

\* cleanup(): it keeps no handle of the setTimeout retry timers and clears
\* none: the number pending afterwards
RetryTimersAfterCleanup(n) == n

\* faulty variant of Enqueue: `unshift` written for `push`
EnqueueFront(q, e) == <<e>> \o q

\* log(): `this.queue.push(entry)`
Enqueue(q, e) == Append(q, e)

\* faulty variant of ShouldFlush: `>` written for `>=`
ShouldFlushStrict(q) == Len(q) > EffBatchSize

\* log(): `this.queue.length >= (this.config.batchSize || 50)`
ShouldFlush(q) == Len(q) >= EffBatchSize

\* faulty variant of Batch: the request carries everything that was queued
BatchAll(q) == q

\* faulty variant of Batch: the batch misses the last entry splice removes
BatchShort(q) == SubSeq(q, 1, Min(Len(q), EffBatchSize) - 1)

\* flush(): the value of `this.queue.splice(0, batchSize)`
Batch(q) == SubSeq(q, 1, Min(Len(q), EffBatchSize))

\* faulty variant of Rest: `slice` written for `splice`, the batch stays queued
RestKeepsBatch(q) == q

\* flush(): what splice leaves in the queue
Rest(q) == SubSeq(q, Min(Len(q), EffBatchSize) + 1, Len(q))

\* catch branch: `this.retryCount <= (this.config.maxRetries || 3)`
CanRetry(rc) == rc <= EffMaxRetries

\* catch branch: `this.queue.unshift(...batch)`
Requeue(batch, q) == batch \o q

\* The code compares retryCount only with maxRetries, and reads its value
\* only while it is <= maxRetries: every value above maxRetries + 1 behaves
\* as maxRetries + 1 does, and the model keeps that one value for all of them.
RetryCeil == EffMaxRetries + 1

\* catch branch: `this.retryCount++`
Incr(rc) == Min(rc + 1, RetryCeil)

\* the per-entry request counters saturate above every configurable budget
SendCap == Max(MaxMaxRetries, DefaultMaxRetries) + 2

Bump(cnt, batch) ==
  IF counting
  THEN [e \in Entries |->
          IF e \in Range(batch) THEN Min(cnt[e] + 1, SendCap) ELSE cnt[e]]
  ELSE cnt

\* flush() up to its await, run on queue q: either the early return, or the
\* splice and the dispatch of one request
FlushFrom(q) ==
  IF q = <<>>
  THEN /\ queue' = q
       /\ inflight' = inflight
       /\ sendCount' = sendCount
  ELSE /\ queue' = Rest(q)
       /\ inflight' = inflight \cup {Batch(q)}
       /\ sendCount' = Bump(sendCount, Batch(q))

\* how a request completes: fetch rejects (a network-level exception), or
\* resolves with a response of some status
StatusCodes == {200, 299, 300, 500}

Outcomes ==
  {[kind |-> "error", status |-> 0]}
    \cup {[kind |-> "response", status |-> c] : c \in StatusCodes}

NoResponse == [kind |-> "none", status |-> 0]

\* faulty variant of ResponseOk: redirects count as success
ResponseOkLoose(o) == o.kind = "response" /\ o.status >= 200 /\ o.status <= 399

\* flush(): fetch resolved and `response.ok`, which is a status of 200..299
ResponseOk(o) == o.kind = "response" /\ o.status >= 200 /\ o.status <= 299

\* ------------------------------------------------------------- Init
Configs ==
  [enableRemote : BOOLEAN, batchSize : 0..MaxBatch, maxRetries : 0..MaxMaxRetries]

TInit ==
  /\ config \in Configs
  /\ queue = <<>>
  /\ timerActive = TRUE
  /\ retryCount = 0
  /\ inflight = {}
  /\ retryTimers = 0
  /\ cleanupPc = "idle"
  /\ cleanupBatch = <<>>
  /\ nextId = 1
  /\ acked = <<>>
  /\ fallback = <<>>
  /\ sendCount = [e \in Entries |-> 0]
  /\ failCount = [e \in Entries |-> 0]
  /\ lastOp = "init"
  /\ burst = 0
  /\ cleanupQuiet = TRUE
  /\ lastResponse = NoResponse

\* ------------------------------------------------------------ Logger
\* what reading a key yields that the object does not have
Absent == "absent"

Levels == {"debug", "info", "warn", "error"}

\* LogLevel in the order of verbosity: debug < info < warn < error
Rank(level) ==
  CASE level = "debug" -> 0
    [] level = "info" -> 1
    [] level = "warn" -> 2
    [] level = "error" -> 3

\* faulty variant of LevelPasses: every guard lists one level too many
LevelPassesLoose(level, threshold) == Rank(level) + 1 >= Rank(threshold)

\* the guards of debug(), info(), warn() and error() on this.config.level
LevelPasses(level, threshold) ==
  CASE level = "debug" -> threshold = "debug"
    [] level = "info" -> threshold \in {"debug", "info"}
    [] level = "warn" -> threshold \in {"debug", "info", "warn"}
    [] level = "error" -> TRUE

\* the transport setupTransports() registers when config.enableConsole
ConsoleTransport == [kind |-> "console", throws |-> FALSE]

\* a transport handed to addTransport(); throws: its log() throws
CustomTransport(throws) == [kind |-> "custom", throws |-> throws]

\* index of the first transport whose log() throws; 0 when none does
FirstThrowing(ts) ==
  IF \E i \in 1..Len(ts) : ts[i].throws
  THEN CHOOSE i \in 1..Len(ts) :
         ts[i].throws /\ \A j \in 1..(i - 1) : ~ts[j].throws
  ELSE 0

\* Logger.log(): `this.transports.forEach(transport => transport.log(entry))`.
\* The transports whose log() is called: forEach stops at the first throw.
Reached(ts) ==
  IF FirstThrowing(ts) = 0 THEN 1..Len(ts) ELSE 1..FirstThrowing(ts)

\* Logger.log(): whether the exception of a transport leaves the level method
Throws(ts) == FirstThrowing(ts) # 0

\* Logger.log(): the forEach loop from index i on: the transports whose log()
\* is called, in the order of the calls; a throw ends the loop
RECURSIVE ForEach(_, _)
ForEach(ts, i) ==
  IF i > Len(ts) THEN <<>>
  ELSE IF ts[i].throws THEN <<i>>
  ELSE <<i>> \o ForEach(ts, i + 1)

LInit ==
  /\ lgConfig \in [level : Levels, enableConsole : BOOLEAN]
  /\ transports = IF lgConfig.enableConsole THEN <<ConsoleTransport>> ELSE <<>>
  /\ invoked = [i \in 1..Len(transports) |-> <<>>]
  /\ calls = 0
  /\ lastCall = [level |-> "none", outcome |-> "none"]
  /\ lastOrder = <<>>

\* the Logger of the defaults (DEFAULT_SERVER_CONFIG), never called
LIdle ==
  /\ lgConfig = [level |-> "info", enableConsole |-> TRUE]
  /\ transports = <<ConsoleTransport>>
  /\ invoked = <<<<>>>>
  /\ calls = 0
  /\ lastCall = [level |-> "none", outcome |-> "none"]
  /\ lastOrder = <<>>

\* a RemoteTransport that is never used
TIdle ==
  /\ TInit
  /\ config = [enableRemote |-> FALSE, batchSize |-> 0, maxRetries |-> 0]

\* Logger.addTransport(transport)
AddTransport(throws) ==
  /\ Len(transports) < MaxTransports
  /\ transports' = Append(transports, CustomTransport(throws))
  /\ invoked' = Append(invoked, <<>>)
  /\ lastCall' = [level |-> "none", outcome |-> "none"]
  /\ lastOrder' = <<>>
  /\ UNCHANGED <<lgConfig, calls>>

\* Logger.debug(), info(), warn() or error(): the guard, then Logger.log()
LevelCall(level) ==
  /\ calls < MaxCalls
  /\ calls' = calls + 1
  /\ IF LevelPasses(level, lgConfig.level)
     THEN /\ invoked' = [i \in 1..Len(transports) |->
                          IF i \in Reached(transports)
                          THEN Append(invoked[i], [level |-> level, n |-> calls + 1])
                          ELSE invoked[i]]
          /\ lastCall' = [level |-> level,
                          outcome |-> IF Throws(transports) THEN "threw"
                                      ELSE "returned"]
          /\ lastOrder' = ForEach(transports, 1)
     ELSE /\ invoked' = invoked
          /\ lastCall' = [level |-> level, outcome |-> "returned"]
          /\ lastOrder' = <<>>
  /\ UNCHANGED <<lgConfig, transports>>

Register ==
  \E throws \in BOOLEAN :
    AddTransport(throws) /\ UNCHANGED <<tvars, ovars, cvars, kvars, avars>>

Call ==
  \E level \in Levels :
    LevelCall(level) /\ UNCHANGED <<tvars, ovars, cvars, kvars, avars>>

LoggerNext ==
  \/ Register
  \/ Call

\* --------------------------------------------------------------- time
\* the entry createLogEntry() builds for the call numbered n.  error() and
\* info() hand no duration to Logger.log(): time() puts it into the context.
TimedEntry(level, error, n) ==
  [level |-> level, n |-> n, error |-> error,
   duration |-> "undefined", contextDuration |-> "number"]

\* Logger.log(): every transport the forEach loop reaches gets the entry
Deliver(inv, entry) ==
  [i \in 1..Len(transports) |->
     IF i \in Reached(transports) THEN Append(inv[i], entry) ELSE inv[i]]

\* Logger.time(message, fn), fn rejecting with "e" or resolving.
\* try: `await fn()`, then info(); catch: error(message, error), `throw error`.
\* An exception of a transport inside info() is caught by the same catch.
TimeCall(rejects) ==
  /\ calls < MaxCalls
  /\ calls' = calls + 1
  /\ lastOrder' = <<>>
  /\ IF rejects
     THEN /\ invoked' = Deliver(invoked, TimedEntry("error", "e", calls + 1))
          /\ lastCall' = [level |-> "time", fn |-> "rejects", outcome |-> "rejected",
                          reason |-> IF Throws(transports) THEN "transport" ELSE "e"]
     ELSE IF LevelPasses("info", lgConfig.level) /\ Throws(transports)
     THEN /\ invoked' = Deliver(Deliver(invoked, TimedEntry("info", "none", calls + 1)),
                                TimedEntry("error", "transport", calls + 1))
          /\ lastCall' = [level |-> "time", fn |-> "resolves", outcome |-> "rejected",
                          reason |-> "transport"]
     ELSE /\ invoked' = IF LevelPasses("info", lgConfig.level)
                        THEN Deliver(invoked, TimedEntry("info", "none", calls + 1))
                        ELSE invoked
          /\ lastCall' = [level |-> "time", fn |-> "resolves", outcome |-> "resolved",
                          reason |-> "none"]
  /\ UNCHANGED <<lgConfig, transports>>

Timed ==
  \E rejects \in BOOLEAN :
    TimeCall(rejects) /\ UNCHANGED <<tvars, ovars, cvars, kvars, avars>>

TimeNext ==
  \/ Register
  \/ Timed

\* ------------------------------------------------------------ cleanup
\* a transport handed to addTransport() that has a cleanup() method, whose
\* promise resolves or rejects
ClosableTransport(rejects) ==
  [kind |-> "custom", throws |-> FALSE,
   cleanup |-> IF rejects THEN "rejects" ELSE "resolves"]

\* `'cleanup' in transport && typeof transport.cleanup === 'function'`
HasCleanup(t) == "cleanup" \in DOMAIN t

\* Logger.cleanup(): the for...of loop from index i on: the first transport
\* that passes the test, 0 when the loop ends without one
RECURSIVE NextClosable(_, _)
NextClosable(ts, i) ==
  IF i > Len(ts) THEN 0
  ELSE IF HasCleanup(ts[i]) THEN i
  ELSE NextClosable(ts, i + 1)

\* Logger.addTransport(transport), the transport having cleanup()
AddClosable(rejects) ==
  /\ Len(transports) < MaxTransports
  /\ transports' = Append(transports, ClosableTransport(rejects))
  /\ invoked' = Append(invoked, <<>>)
  /\ lastCall' = [level |-> "none", outcome |-> "none"]
  /\ lastOrder' = <<>>
  /\ UNCHANGED <<lgConfig, calls>>

RegisterClosable ==
  \E rejects \in BOOLEAN :
    AddClosable(rejects) /\ UNCHANGED <<tvars, ovars, cvars, kvars, avars>>

\* the loop of Logger.cleanup() goes on from index i: it calls cleanup() of
\* the next transport that has one and suspends at the await, or ends
LoopFrom(i, log, registered) ==
  IF NextClosable(transports, i) = 0
  THEN /\ lcPc' = [state |-> "done", at |-> 0, registered |-> registered]
       /\ lcLog' = log
  ELSE /\ lcPc' = [state |-> "awaiting", at |-> NextClosable(transports, i),
                   registered |-> registered]
       /\ lcLog' = Append(log, [op |-> "start", at |-> NextClosable(transports, i)])

\* Logger.cleanup() is called
LoggerCleanup ==
  /\ lcPc.state = "idle"
  /\ LoopFrom(1, lcLog, Len(transports))
  /\ UNCHANGED <<tvars, ovars, cvars, avars, lgConfig, transports, invoked, calls,
                 lastCall, lastOrder>>

\* the promise `await transport.cleanup()` waits for settles: resolved, the
\* loop goes on; rejected, the exception leaves Logger.cleanup()
CleanupSettles ==
  /\ lcPc.state = "awaiting"
  /\ IF transports[lcPc.at].cleanup = "rejects"
     THEN /\ lcPc' = [state |-> "rejected", at |-> 0, registered |-> lcPc.registered]
          /\ lcLog' = Append(lcLog, [op |-> "settle", at |-> lcPc.at])
     ELSE LoopFrom(lcPc.at + 1, Append(lcLog, [op |-> "settle", at |-> lcPc.at]),
                   lcPc.registered)
  /\ UNCHANGED <<tvars, ovars, cvars, avars, lgConfig, transports, invoked, calls,
                 lastCall, lastOrder>>

CleanupNext ==
  \/ Register
  \/ RegisterClosable
  \/ LoggerCleanup
  \/ CleanupSettles

\* ----------------------------------------------------------- adapters
Adapters == {"nextjs", "express", "middleware"}

\* key names of a request's headers, query or body object
FieldNames == {"password", "Password", "username"}

\* String.prototype.toLowerCase on the names in use
ToLowerCase(name) == IF name = "Password" THEN "password" ELSE name

\* the value sanitize() writes
Redacted == "[REDACTED]"

\* values of a field; "" is the falsy one
FieldValues == {"x", ""}

\* an object: the value of each key, Absent for a name that is no key of it
Objects == [FieldNames -> FieldValues \cup {Absent}]

EmptyObject == [k \in FieldNames |-> Absent]

\* JavaScript truthiness of `sanitized[key]`: a missing key reads undefined
Truthy(v) == v # Absent /\ v # ""

\* the body of the forEach callback in sanitize(), for one listed field
RedactField(obj, field) ==
  IF Truthy(obj[ToLowerCase(field)])
  THEN [obj EXCEPT ![ToLowerCase(field)] = Redacted]
  ELSE obj

\* sanitize(data, sensitiveFields): the copy `{ ...data }` after the forEach
\* over the fields from index i on
RECURSIVE Sanitize(_, _, _)
Sanitize(obj, fields, i) ==
  IF i > Len(fields) THEN obj
  ELSE Sanitize(RedactField(obj, fields[i]), fields, i + 1)

\* lists of sensitive field names, as configured
FieldLists == UNION {[1..n -> {"password", "Password"}] : n \in 0..MaxFields}

\* the middleware is entered for a request: logRequest() logs the sanitized
\* copy, and the response methods are wrapped
Incoming(a, obj, fields) ==
  /\ adapter = "none"
  /\ adapter' = a
  /\ request' = obj
  /\ sensitive' = fields
  /\ logged' = Sanitize(obj, fields, 1)
  /\ isResponseLogged' = FALSE
  /\ completions' = 0
  /\ writes' = <<>>

Methods == {"json", "send", "end"}

\* the response methods the middleware replaces: the Next.js adapter wraps
\* json, send and end; the Express adapter and createLoggingMiddleware wrap end
Wrapped(a) == IF a = "nextjs" THEN Methods ELSE {"end"}

\* one call of res.json, res.send or res.end.  Next.js: logResponseOnce(),
\* guarded by isResponseLogged; the other two: endResponse(), unguarded.
Write(m) ==
  /\ adapter # "none"
  /\ Len(writes) < MaxWrites
  /\ writes' = Append(writes, m)
  /\ IF m \notin Wrapped(adapter)
     THEN UNCHANGED <<isResponseLogged, completions>>
     ELSE IF adapter = "nextjs"
     THEN /\ isResponseLogged' = TRUE
          /\ completions' = IF isResponseLogged THEN completions ELSE completions + 1
     ELSE /\ completions' = completions + 1
          /\ UNCHANGED isResponseLogged
  /\ UNCHANGED <<adapter, request, sensitive, logged>>

Request ==
  \E a \in Adapters, obj \in Objects, fields \in FieldLists :
    /\ Incoming(a, obj, fields)
    /\ UNCHANGED <<tvars, ovars, cvars, kvars, lgConfig, transports, invoked, calls,
                   lastCall, lastOrder>>

Respond ==
  \E m \in Methods :
    /\ Write(m)
    /\ UNCHANGED <<tvars, ovars, cvars, kvars, lgConfig, transports, invoked, calls,
                   lastCall, lastOrder>>

AdapterNext ==
  \/ Request
  \/ Respond

\* ----------------------------------------------------------- contexts
\* a LogContext: its keys, and the value of each ("absent": not a key of it)
CtxKeys == {"environment", "userId"}

CtxVals == {"development", "u1"}

Contexts == [CtxKeys -> CtxVals \cup {Absent}]

EmptyContext == [k \in CtxKeys |-> Absent]

\* faulty variant of Merge: on a key of both, the value of a is kept
MergeBaseWins(a, b) == [k \in CtxKeys |-> IF a[k] # Absent THEN a[k] ELSE b[k]]

\* the object spread `{ ...a, ...b }`
Merge(a, b) == [k \in CtxKeys |-> IF b[k] # Absent THEN b[k] ELSE a[k]]

\* constructor: `{ environment: this.options.environment }`
EnvContext == [k \in CtxKeys |-> IF k = "environment" THEN "development" ELSE Absent]

\* constructor: `{ environment: this.options.environment, ...this.options.defaultContext }`
DefaultContextOf(optionsContext) == Merge(EnvContext, optionsContext)

\* setupTransports(): the transports a new Logger of configuration cfg has
SetupTransports(cfg) == IF cfg.enableConsole THEN <<ConsoleTransport>> ELSE <<>>

NoChild == [made |-> FALSE]

NoEntry == [made |-> FALSE]

\* the keys of an entry's context: createLogEntry() adds requestId
EntryKeys == CtxKeys \cup {"requestId"}

\* createLogEntry(): `context: { requestId: uuidv4(), ...context }`; the
\* Logger's default context is not part of it
EntryContext(callContext) ==
  [k \in EntryKeys |-> IF k \in CtxKeys THEN callContext[k] ELSE "uuid"]

\* enrichLogEntry(), run by defaultFormat() for the console and file output:
\* `{ ...this.defaultContext, ...entry.context }` (trace ids left out)
Enriched(default, entryContext) ==
  [k \in EntryKeys |->
     IF entryContext[k] # Absent THEN entryContext[k]
     ELSE IF k \in CtxKeys THEN default[k] ELSE Absent]

\* Logger.withContext(context), context being extra:
\* `new Logger({ ...this.options, defaultContext: { ...this.defaultContext, ...context } })`
WithContext(extra) ==
  /\ child' = [made |-> TRUE,
               extra |-> extra,
               defaultContext |-> DefaultContextOf(Merge(defaultContext, extra)),
               level |-> lgConfig.level,
               transports |-> SetupTransports(lgConfig)]
  /\ lastCall' = [level |-> "withContext", outcome |-> "returned"]
  /\ lastOrder' = <<>>
  /\ emitted' = NoEntry
  /\ UNCHANGED <<lgConfig, transports, invoked, calls, defaultContext>>

Derive == \E extra \in Contexts : WithContext(extra) /\ UNCHANGED <<tvars, ovars, kvars, avars>>

\* error(message, error, context) on the Logger withContext() returned.
\* Its transports get the entry of createLogEntry().  Its console transport
\* prints `this.options.format(entry)`, and options.format was copied from the
\* parent (`...this.options`), where it is the parent's defaultFormat bound to
\* the parent: the output is enriched with the parent's default context.
ChildLog(callContext) ==
  /\ child.made
  /\ emitted' = [made |-> TRUE,
                 call |-> callContext,
                 context |-> EntryContext(callContext),
                 output |-> Enriched(defaultContext, EntryContext(callContext))]
  /\ lastCall' = [level |-> "child", outcome |-> "returned"]
  /\ UNCHANGED <<lgConfig, transports, invoked, calls, lastOrder, defaultContext, child>>

Emit == \E callContext \in Contexts : ChildLog(callContext) /\ UNCHANGED <<tvars, ovars, kvars, avars>>

CtxIdle ==
  /\ defaultContext = EnvContext
  /\ child = NoChild
  /\ emitted = NoEntry

\* a Logger constructed with any options.defaultContext
CtxInit ==
  /\ \E optionsContext \in Contexts : defaultContext = DefaultContextOf(optionsContext)
  /\ child = NoChild
  /\ emitted = NoEntry

LcIdle ==
  /\ lcPc = [state |-> "idle", at |-> 0, registered |-> 0]
  /\ lcLog = <<>>

AdIdle ==
  /\ adapter = "none"
  /\ request = EmptyObject
  /\ sensitive = <<>>
  /\ logged = EmptyObject
  /\ isResponseLogged = FALSE
  /\ completions = 0
  /\ writes = <<>>

\* ------------------------------------- Loggers and their RemoteTransports
\* The client-side build (isServer false) with a remoteEndpoint configured.
\* A RemoteTransport is a heap object: `remotes` maps its identity to its
\* fields, a Logger holds the identity of the one in its transports (0: none).

\* `this.config.batchSize || 50` of one instance
BatchSizeOf(cfg) == IF cfg.batchSize = 0 THEN DefaultBatchSize ELSE cfg.batchSize

\* `this.config.maxRetries || 3` of one instance
MaxRetriesOf(cfg) == IF cfg.maxRetries = 0 THEN DefaultMaxRetries ELSE cfg.maxRetries

\* new RemoteTransport(config): empty queue, retryCount 0, startTimer()
NewRemoteTransport(cfg) ==
  [config |-> cfg, queue |-> <<>>, timer |-> TRUE, retryCount |-> 0,
   retryTimers |-> 0, inflight |-> {}]

\* flush() of one instance up to its await
FlushOf(t) ==
  IF t.queue = <<>> THEN t
  ELSE LET n == Min(Len(t.queue), BatchSizeOf(t.config))
       IN [t EXCEPT !.queue = SubSeq(t.queue, n + 1, Len(t.queue)),
                    !.inflight = @ \cup {SubSeq(t.queue, 1, n)}]

\* log(entry) of one instance
LogOf(t, e) ==
  IF ~t.config.enableRemote THEN t
  ELSE LET pushed == [t EXCEPT !.queue = Append(@, e)]
       IN IF Len(pushed.queue) >= BatchSizeOf(t.config) THEN FlushOf(pushed) ELSE pushed

\* flush() of one instance after its await: the request of batch b is
\* answered (ok) or fails
SettleOf(t, b, ok) ==
  LET sent == [t EXCEPT !.inflight = @ \ {b}]
  IN IF ok THEN [sent EXCEPT !.retryCount = 0]
     ELSE IF t.retryCount + 1 <= MaxRetriesOf(t.config)
          THEN [sent EXCEPT !.retryCount = @ + 1, !.queue = b \o @, !.retryTimers = @ + 1]
          ELSE [sent EXCEPT !.retryCount = MaxRetriesOf(t.config) + 1]

\* cleanup() of one instance up to the await of its flush()
CleanupOf(t) == FlushOf([t EXCEPT !.timer = ClearInterval(@)])

\* faulty variant of OwnRemote: the new Logger is given its parent's transport
ParentRemote(parent, fresh) == parent

\* setupTransports(): `this.addTransport(new RemoteTransport(clientConfig))`:
\* the transport of the Logger under construction is the instance just made
OwnRemote(parent, fresh) == fresh

\* the constructor of Logger, called by `new Logger(options)`: parent is the
\* transport of the Logger whose withContext() made the call (0: none)
Construct(options, parent) ==
  IF options.enableRemote
  THEN /\ remotes' = Append(remotes, NewRemoteTransport(options))
       /\ loggers' = Append(loggers, [options |-> options,
                                      remote |-> OwnRemote(parent, Len(remotes) + 1)])
  ELSE /\ remotes' = remotes
       /\ loggers' = Append(loggers, [options |-> options, remote |-> 0])

NoOp == [op |-> "none", logger |-> 0]

\* everything but the Loggers and their RemoteTransports
notOwned == <<tvars, lgConfig, transports, invoked, calls, lastCall, lastOrder, cvars, kvars, avars>>

\* logger.withContext(context) on Logger i: `new Logger({...this.options, ...})`
OwnWithContext ==
  \E i \in DOMAIN loggers :
    /\ Len(loggers) < MaxLoggers
    /\ Construct(loggers[i].options, loggers[i].remote)
    /\ ownOp' = [op |-> "withContext", logger |-> i]
    /\ UNCHANGED <<loggedOn, notOwned>>

\* a level method on Logger i that passes the filter: Logger.log() hands the
\* entry to the Logger's transports
OwnLog ==
  \E i \in DOMAIN loggers :
    /\ Len(loggedOn) < MaxOwnLog
    /\ loggedOn' = Append(loggedOn, i)
    /\ remotes' = [r \in DOMAIN remotes |->
                    IF r = loggers[i].remote THEN LogOf(remotes[r], Len(loggedOn) + 1)
                    ELSE remotes[r]]
    /\ ownOp' = [op |-> "log", logger |-> i]
    /\ UNCHANGED <<loggers, notOwned>>

\* the setInterval timer of instance r fires
OwnTick ==
  \E r \in DOMAIN remotes :
    /\ remotes[r].timer
    /\ remotes[r].queue # <<>>
    /\ remotes' = [remotes EXCEPT ![r] = FlushOf(@)]
    /\ ownOp' = NoOp
    /\ UNCHANGED <<loggers, loggedOn, notOwned>>

\* a retry timer of instance r fires
OwnRetry ==
  \E r \in DOMAIN remotes :
    /\ remotes[r].retryTimers > 0
    /\ remotes' = [remotes EXCEPT ![r] = FlushOf([@ EXCEPT !.retryTimers = @ - 1])]
    /\ ownOp' = NoOp
    /\ UNCHANGED <<loggers, loggedOn, notOwned>>

\* a request of instance r is answered or fails
OwnResponse ==
  \E r \in DOMAIN remotes : \E b \in remotes[r].inflight : \E ok \in BOOLEAN :
    /\ remotes' = [remotes EXCEPT ![r] = SettleOf(@, b, ok)]
    /\ ownOp' = NoOp
    /\ UNCHANGED <<loggers, loggedOn, notOwned>>

\* logger.cleanup() on Logger i: cleanup() of each of its transports
OwnCleanup ==
  \E i \in DOMAIN loggers :
    /\ remotes' = [r \in DOMAIN remotes |->
                    IF r = loggers[i].remote THEN CleanupOf(remotes[r]) ELSE remotes[r]]
    /\ ownOp' = [op |-> "cleanup", logger |-> i]
    /\ UNCHANGED <<loggers, loggedOn, notOwned>>

OwnerNext ==
  \/ OwnWithContext
  \/ OwnLog
  \/ OwnTick
  \/ OwnRetry
  \/ OwnResponse
  \/ OwnCleanup

\* no Logger of this part yet
OwIdle ==
  /\ loggers = <<>>
  /\ remotes = <<>>
  /\ loggedOn = <<>>
  /\ ownOp = NoOp

\* the client configurations of this part: batchSize unset, 1 or 2, one retry
OwnerConfigs == {c \in Configs : c.batchSize <= 2 /\ c.maxRetries = 1}

\* `new Logger({clientConfig})`
OwInit ==
  /\ \E options \in OwnerConfigs :
       /\ loggers = <<[options |-> options,
                       remote |-> IF options.enableRemote THEN 1 ELSE 0]>>
       /\ remotes = IF options.enableRemote THEN <<NewRemoteTransport(options)>> ELSE <<>>
  /\ loggedOn = <<>>
  /\ ownOp = NoOp

ContextNext ==
  \/ Register
  \/ Derive
  \/ Emit

ContextInit == TIdle /\ counting = FALSE /\ LInit /\ CtxInit /\ LcIdle /\ AdIdle /\ OwIdle

ContextSpec == ContextInit /\ [][ContextNext]_vars

LoggerInit == TIdle /\ counting = FALSE /\ LInit /\ CtxIdle /\ LcIdle /\ AdIdle /\ OwIdle

LoggerSpec == LoggerInit /\ [][LoggerNext]_vars

TimeSpec == LoggerInit /\ [][TimeNext]_vars

CleanupSpec == LoggerInit /\ [][CleanupNext]_vars

\* no request yet; the Logger of the defaults
AdapterInit == TIdle /\ counting = FALSE /\ LIdle /\ CtxIdle /\ LcIdle /\ AdIdle /\ OwIdle

AdapterSpec == AdapterInit /\ [][AdapterNext]_vars

OwnerInit == TIdle /\ counting = FALSE /\ LIdle /\ CtxIdle /\ LcIdle /\ AdIdle /\ OwInit

OwnerSpec == OwnerInit /\ [][OwnerNext]_vars

Init == TInit /\ counting = FALSE /\ LIdle /\ CtxIdle /\ LcIdle /\ AdIdle /\ OwIdle

CountInit == TInit /\ counting = TRUE /\ LIdle /\ CtxIdle /\ LcIdle /\ AdIdle /\ OwIdle

\* ---------------------------------------------------------- actions
\* RemoteTransport.log(entry), entry being e
LogCall(e) ==
  /\ lastOp' = "log"
  /\ lastResponse' = NoResponse
  /\ cleanupQuiet' = FALSE
  /\ IF RemoteDisabled(config)
     THEN /\ UNCHANGED <<queue, inflight, sendCount>>
          /\ burst' = 0
     ELSE /\ burst' = IF queue = <<>> THEN 1
                      ELSE IF burst > 0 THEN burst + 1 ELSE 0
          /\ IF ShouldFlush(Enqueue(queue, e))
             THEN FlushFrom(Enqueue(queue, e))
             ELSE /\ queue' = Enqueue(queue, e)
                  /\ UNCHANGED <<inflight, sendCount>>
  /\ UNCHANGED <<lvars, counting, config, timerActive, retryCount, retryTimers, cleanupPc,
                 cleanupBatch, failCount>>

\* log() of a new entry: entries are numbered in the order they are logged
Log ==
  /\ nextId <= MaxLog
  /\ nextId' = nextId + 1
  /\ LogCall(nextId)
  /\ UNCHANGED <<acked, fallback>>

\* log() of one more entry once MaxLog entries exist: the new entry takes the
\* number of an entry that was acknowledged or printed to the fallback, whose
\* record is dropped.  Only specifications of unboundedly many log() calls
\* take this step; under them a number no longer tells the log order.
LogAgain(e) ==
  /\ nextId > MaxLog
  /\ config.enableRemote
  /\ ~counting
  /\ e \in Entries \ (Range(queue) \cup InFlightEntries)
  /\ acked' = SelectSeq(acked, LAMBDA x : x # e)
  /\ fallback' = SelectSeq(fallback, LAMBDA x : x # e)
  /\ LogCall(e)
  /\ UNCHANGED nextId

\* the setInterval callback: `() => this.flush()`
Tick ==
  /\ timerActive
  /\ FlushFrom(queue)
  /\ lastOp' = "tick"
  /\ lastResponse' = NoResponse
  /\ burst' = 0
  /\ UNCHANGED <<lvars, counting, config, timerActive, retryCount, retryTimers, cleanupPc,
                 cleanupBatch, nextId, acked, fallback, failCount, cleanupQuiet>>

\* a setTimeout callback scheduled by the catch branch: `() => this.flush()`
Retry ==
  /\ retryTimers > 0
  /\ retryTimers' = retryTimers - 1
  /\ FlushFrom(queue)
  /\ lastOp' = "retry"
  /\ lastResponse' = NoResponse
  /\ burst' = 0
  /\ UNCHANGED <<lvars, counting, config, timerActive, retryCount, cleanupPc, cleanupBatch,
                 nextId, acked, fallback, failCount, cleanupQuiet>>

\* the promise of the flush() that cleanup() awaits settles with batch b
Settle(b) ==
  cleanupPc' = IF cleanupPc = "awaiting" /\ cleanupBatch = b
               THEN "resolved" ELSE cleanupPc

\* flush() resumes after await with response.ok
Succeed(b) ==
  /\ b \in inflight
  /\ inflight' = inflight \ {b}
  /\ retryCount' = 0
  /\ acked' = acked \o b
  /\ Settle(b)
  /\ lastOp' = "ok"
  /\ burst' = 0
  /\ UNCHANGED <<lvars, counting, config, queue, timerActive, retryTimers, cleanupBatch, nextId,
                 fallback, sendCount, failCount, cleanupQuiet>>

\* flush() resumes in its catch branch: fetch rejected or !response.ok
Fail(b) ==
  /\ b \in inflight
  /\ inflight' = inflight \ {b}
  /\ retryCount' = Incr(retryCount)
  /\ failCount' = Bump(failCount, b)
  /\ IF CanRetry(Incr(retryCount))
     THEN /\ retryTimers < MaxTimers
          /\ queue' = Requeue(b, queue)
          /\ retryTimers' = retryTimers + 1
          /\ fallback' = fallback
          /\ lastOp' = "requeue"
     ELSE /\ fallback' = fallback \o b
          /\ UNCHANGED <<queue, retryTimers>>
          /\ lastOp' = "abandon"
  /\ Settle(b)
  /\ burst' = 0
  /\ cleanupQuiet' = FALSE
  /\ UNCHANGED <<lvars, counting, config, timerActive, cleanupBatch, nextId, acked, sendCount>>

\* RemoteTransport.cleanup() up to its await
Cleanup ==
  /\ cleanupPc = "idle"
  /\ timerActive' = ClearInterval(timerActive)
  /\ retryTimers' = RetryTimersAfterCleanup(retryTimers)
  /\ FlushFrom(queue)
  /\ cleanupPc' = "awaiting"
  /\ cleanupBatch' = Batch(queue)
  /\ lastOp' = "cleanup"
  /\ lastResponse' = NoResponse
  /\ burst' = 0
  /\ cleanupQuiet' = TRUE
  /\ UNCHANGED <<lvars, counting, config, retryCount, nextId, acked, fallback,
                 failCount>>

\* cleanup() resumes after `await this.flush()` when flush() returned early
CleanupReturn ==
  /\ cleanupPc = "awaiting"
  /\ cleanupBatch = <<>>
  /\ cleanupPc' = "resolved"
  /\ lastOp' = "return"
  /\ lastResponse' = NoResponse
  /\ burst' = 0
  /\ UNCHANGED <<lvars, counting, config, queue, timerActive, retryCount, inflight, retryTimers,
                 cleanupBatch, nextId, acked, fallback, sendCount, failCount,
                 cleanupQuiet>>

\* the request of batch b completes with outcome o: the try block goes on
\* after the await, or the catch branch runs
Answer(b, o) ==
  /\ lastResponse' = o
  /\ IF ResponseOk(o) THEN Succeed(b) ELSE Fail(b)

Response == \E b \in inflight : \E o \in Outcomes : ResponseOk(o) /\ Answer(b, o)

Failure == \E b \in inflight : \E o \in Outcomes : ~ResponseOk(o) /\ Answer(b, o)


Next ==
  \/ Log
  \/ Tick
  \/ Retry
  \/ Response
  \/ Failure
  \/ Cleanup
  \/ CleanupReturn

Spec == Init /\ [][Next]_vars

\* the same program, observed with the per-entry request counters
CountSpec == CountInit /\ [][Next]_vars

\* ------------------------------------------------ unbounded logging
LogMore == \E e \in Entries : LogAgain(e)

\* the request carrying entry e completes, with either outcome
Complete(e) ==
  \E b \in inflight : e \in Range(b) /\ \E o \in Outcomes : Answer(b, o)

\* log() calls without end, timer ticks, retry timers and responses; no
\* cleanup(), so the interval timer stays armed
FairNext ==
  \/ Log
  \/ LogMore
  \/ Tick
  \/ Retry
  \/ Response
  \/ Failure

\* setInterval keeps firing, every setTimeout fires, every fetch settles
FairSpec ==
  /\ Init
  /\ [][FairNext]_vars
  /\ WF_vars(Tick)
  /\ WF_vars(Retry)
  /\ \A e \in Entries : WF_vars(Complete(e))

\* the same steps, assuming only that setInterval keeps firing
TimerFairSpec ==
  /\ Init
  /\ [][FairNext]_vars
  /\ WF_vars(Tick)

\* ------------------------------------------------------------ claims
Pending == Range(queue) \cup InFlightEntries

Delivered == Range(acked) \cup Range(fallback)

\* C1: every logged entry is eventually part of an acknowledged request or
\* printed to the console fallback, under every interleaving of log() calls,
\* timer ticks, request successes and request failures.
C1_EventuallyDelivered ==
  \A e \in Entries : (e \in Pending) ~> (e \in Delivered)

\* C2: the entries of the acknowledged requests, taken in acknowledgement
\* order, are in original log() order: none is acknowledged after an entry
\* that was logged later.
C2_AckedInLogOrder ==
  \A i, j \in 1..Len(acked) : i < j => acked[i] < acked[j]

\* C3: with maxRetries = M (the value in force, `maxRetries || 3`) and an
\* endpoint that has failed every request, an abandoned entry was sent exactly
\* M + 1 times, no entry was sent more often, and an abandoned entry is
\* neither queued nor in flight again.
C3_SentMaxRetriesPlusOne ==
  acked = <<>> =>
    /\ \A e \in Range(fallback) :
         sendCount[e] = EffMaxRetries + 1 /\ e \notin Pending
    /\ \A e \in Entries : sendCount[e] <= EffMaxRetries + 1

\* C4: when a batch is abandoned (the retry counter exceeded maxRetries) the
\* retry counter is reset to zero.
C4_ResetOnAbandon ==
  lastOp = "abandon" => retryCount = 0

NoDuplicates(q) == \A i, j \in 1..Len(q) : i # j => q[i] # q[j]

\* C5: each entry belongs to at most one in-flight batch, and an entry that is
\* in flight is neither still queued (where another flush would send it again)
\* nor acknowledged nor abandoned: a second request carries it only after the
\* request that carried it has failed.
C5_OneRequestPerEntry ==
  /\ \A b1, b2 \in inflight : b1 # b2 => Range(b1) \cap Range(b2) = {}
  /\ \A b \in inflight :
       /\ NoDuplicates(b)
       /\ Range(b) \cap (Range(queue) \cup Delivered) = {}
  /\ NoDuplicates(queue)
  /\ Range(queue) \cap Delivered = {}

\* a flush was started by the timer while another request was outstanding,
\* after an earlier request had failed and its batch was re-queued
C5_Witness ==
  /\ lastOp = "tick"
  /\ Cardinality(inflight) >= 2
  /\ retryTimers > 0

\* the entries logged by the last n log() calls, in log order
LastLogged(n) == [i \in 1..n |-> nextId - n + i - 1]

\* C6: batchSize log() calls in immediate succession, starting on an empty
\* queue, dispatch exactly one request: nothing is dispatched before the
\* batchSize-th call (the entries wait in the queue), and that call dispatches
\* the batchSize entries in log order and leaves the queue empty.
C6_SizeTriggeredFlush ==
  (config.enableRemote /\ burst > 0) =>
    /\ lastOp = "log"
    /\ burst <= EffBatchSize
    /\ burst < EffBatchSize => queue = LastLogged(burst)
    /\ burst = EffBatchSize =>
         /\ queue = <<>>
         /\ LastLogged(burst) \in inflight

C6_Witness ==
  /\ config.enableRemote
  /\ EffBatchSize >= 2
  /\ burst = EffBatchSize
  /\ inflight = {LastLogged(burst)}

C8_CleanupDrains ==
  (cleanupPc = "resolved" /\ cleanupQuiet) => queue = <<>>

C10_TransportsIsolated ==
  lastCall.outcome # "none" =>
    /\ lastCall.outcome = "returned"
    /\ LevelPasses(lastCall.level, lgConfig.level) =>
         \A i \in 1..Len(transports) :
           ~transports[i].throws =>
             /\ invoked[i] # <<>>
             /\ invoked[i][Len(invoked[i])] = [level |-> lastCall.level, n |-> calls]

\* C11: withContext(extra) returns a Logger whose default context is the
\* parent's with extra merged over it (extra wins on a key of both), and
\* leaves the parent's default context and transport list as they were.
C11_WithContextMerges ==
  [][ lastCall'.level = "withContext" =>
        /\ child'.made
        /\ child'.defaultContext =
             [k \in CtxKeys |-> IF child'.extra[k] # Absent THEN child'.extra[k]
                                ELSE defaultContext[k]]
        /\ defaultContext' = defaultContext
        /\ transports' = transports
    ]_vars

\* extra collides with a key of the parent, which has a custom transport
C11_Witness ==
  /\ lastCall.level = "withContext"
  /\ Len(transports) >= 2
  /\ \E k \in CtxKeys :
       /\ child.extra[k] # Absent
       /\ defaultContext[k] # Absent
       /\ child.extra[k] # defaultContext[k]
       /\ child.defaultContext[k] = child.extra[k]

\* the transports a call of a level method invokes, in order, on a Logger of
\* transports ts and threshold threshold
Fanout(ts, threshold, level) ==
  IF LevelPasses(level, threshold) THEN [i \in Reached(ts) |-> ts[i]] ELSE <<>>

\* C12: the Logger returned by withContext({}) invokes the same transports as
\* the parent for every call, with the same default context, including the
\* transports the parent acquired through addTransport.
C12_EmptyContextIdentity ==
  (lastCall.level = "withContext" /\ child.extra = EmptyContext) =>
    /\ child.defaultContext = defaultContext
    /\ \A level \in Levels :
         Fanout(child.transports, child.level, level)
           = Fanout(transports, lgConfig.level, level)

\* the entries of the call numbered n that transport i was handed
EntriesOf(i, n) == SelectSeq(invoked[i], LAMBDA x : x.n = n)

\* C13: when the operation passed to time() rejects with e, the promise of
\* time() rejects with that e, and every transport was handed exactly one
\* entry for the call: of level error, carrying e and a numeric duration (as
\* the duration field or in the context), whatever the level threshold is.
C13_TimeRethrows ==
  (lastCall.level = "time" /\ lastCall.fn = "rejects") =>
    /\ lastCall.outcome = "rejected"
    /\ lastCall.reason = "e"
    /\ \A i \in 1..Len(transports) :
         /\ Len(EntriesOf(i, calls)) = 1
         /\ EntriesOf(i, calls)[1].level = "error"
         /\ EntriesOf(i, calls)[1].error = "e"
         /\ \/ EntriesOf(i, calls)[1].duration = "number"
            \/ EntriesOf(i, calls)[1].contextDuration = "number"

\* the positions of lcLog where the cleanup() of a transport was started
Starts == {p \in 1..Len(lcLog) : lcLog[p].op = "start"}

\* Logger.cleanup() started cleanup() only on transports that have it, in
\* registration order, each at most once, none before the one started before
\* it had settled, passing over no transport that has it
SequentialCleanup ==
  /\ \A p \in 1..Len(lcLog) :
       IF p % 2 = 1
       THEN /\ lcLog[p].op = "start"
            /\ HasCleanup(transports[lcLog[p].at])
            /\ \A i \in 1..(lcLog[p].at - 1) :
                 HasCleanup(transports[i]) => \E q \in 1..(p - 1) : lcLog[q] = [op |-> "start", at |-> i]
       ELSE lcLog[p] = [op |-> "settle", at |-> lcLog[p - 1].at]
  /\ \A p, q \in Starts : p < q => lcLog[p].at < lcLog[q].at

\* C14: Logger.cleanup() calls cleanup() on every registered transport that
\* has it, in registration order and one after the other: the next is started
\* only when the promise of the one before has settled, and transports
\* without cleanup() are skipped.
C14_CleanupSequential ==
  /\ SequentialCleanup
  /\ lcPc.state \in {"done", "rejected"} =>
       \A i \in 1..lcPc.registered :
         HasCleanup(transports[i]) => \E p \in Starts : lcLog[p].at = i

\* C15: in the logged copy of a request object every key whose name equals
\* a listed sensitive field name, compared without regard to case, has the
\* value '[REDACTED]', every other key has its original value, and the
\* request object itself is as it was.
C15_Redaction ==
  adapter # "none" =>
    \A k \in FieldNames :
      IF request[k] = Absent THEN logged[k] = Absent
      ELSE IF \E i \in 1..Len(sensitive) : ToLowerCase(sensitive[i]) = ToLowerCase(k)
      THEN logged[k] = Redacted
      ELSE logged[k] = request[k]

\* C16: for a request handled by any of the three middlewares, the
\* completion/failure entry is logged at most once, and exactly once as soon
\* as the response was ended, whatever response-writing methods were called
\* and however often.
C16_CompletionOnce ==
  adapter # "none" =>
    /\ completions <= 1
    /\ "end" \in Range(writes) => completions = 1

\* C17: a level-method call that passes the filter calls log(entry) on every
\* registered transport, once each, in registration order, with the entry of
\* the call.
C17_FanoutInOrder ==
  (lastCall.level \in Levels /\ LevelPasses(lastCall.level, lgConfig.level)) =>
    /\ lastOrder = [i \in 1..Len(transports) |-> i]
    /\ \A i \in 1..Len(transports) :
         EntriesOf(i, calls) = <<[level |-> lastCall.level, n |-> calls]>>

\* C18: with remote delivery disabled, log(entry) leaves the queue and the
\* retry counter as they are and starts no flush, and no request ever carries
\* an entry: nothing is queued, in flight, acknowledged or abandoned.
C18_DisabledLogNoOp ==
  [][ ~config.enableRemote =>
        /\ lastOp' = "log" =>
             UNCHANGED <<queue, retryCount, inflight, retryTimers, sendCount>>
        /\ queue' = <<>> /\ inflight' = {} /\ retryTimers' = 0
        /\ acked' = <<>> /\ fallback' = <<>>
    ]_vars

\* log() was called twice on a transport with remote delivery disabled, and
\* the timer has fired since
C18_Witness ==
  /\ ~config.enableRemote
  /\ nextId > 2
  /\ lastOp = "tick"
  /\ queue = <<>>

\* C19: at most one flush of a transport is in flight at any time: a flush
\* requested while a request awaits its response removes nothing from the
\* queue and dispatches nothing.
C19_OneFlushInFlight ==
  Cardinality(inflight) <= 1

\* C20: a batch that failed and was re-queued is sent again by its retry
\* timer and not earlier: while a retry timer is pending, no timer tick, log()
\* call or cleanup() dispatches an entry that waits in the queue after a
\* failed request.
C20_BackoffRespected ==
  [][ \A e \in Range(queue) :
        (failCount[e] > 0 /\ retryTimers > 0 /\ e \in InFlightEntries')
          => lastOp' = "retry"
    ]_vars

\* a retriable failure puts its batch, in its order, in front of what was queued
RequeuedAtFront ==
  [][ lastOp' = "requeue" =>
        \E b \in inflight : b \notin inflight' /\ queue' = b \o queue
    ]_vars

\* C21: on a retriable failure the failed batch is put back at the front of
\* the queue in its order, the queue then being the batch followed by what was
\* queued, and the next flush sends the oldest entries first: every entry of
\* the next batch was logged before every entry that stays queued.
C21_RequeueOldestFirst ==
  [][ lastOp' = "requeue" =>
        /\ \E b \in inflight : b \notin inflight' /\ queue' = b \o queue
        /\ \A x \in Range(Batch(queue')), y \in Range(Rest(queue')) : x < y
    ]_vars

\* q is the sequence p with b put in front or with nothing put in front
KeepsQueued(p, q) ==
  \E n \in 0..Len(q) : SubSeq(q, n + 1, Len(q)) = p

C23_SuccessIs2xx ==
  [][ lastResponse'.kind # "none" =>
        \E b \in inflight \ inflight' :
          IF lastResponse'.kind = "response" /\ lastResponse'.status \in 200..299
          THEN /\ retryCount' = 0
               /\ acked' = acked \o b
               /\ queue' = queue /\ fallback' = fallback /\ retryTimers' = retryTimers
          ELSE /\ retryCount' = Min(retryCount + 1, EffMaxRetries + 1)
               /\ acked' = acked
               /\ \/ queue' = b \o queue /\ fallback' = fallback
                  \/ queue' = queue /\ fallback' = fallback \o b
    ]_vars

\* a response of status 300 took the failure path
C23_Witness ==
  /\ lastResponse = [kind |-> "response", status |-> 300]
  /\ lastOp = "requeue"
  /\ retryCount >= 1

\* C24: every flush takes its batch from the head of the queue: the batch is
\* the first min(queue length, batchSize) entries in queue order, the entries
\* behind them stay queued in their order, and no request carries more than
\* batchSize entries.
C24_FifoBatch ==
  [][ /\ (inflight' # inflight /\ inflight \subseteq inflight') =>
           \E b \in inflight' \ inflight :
             LET q == IF lastOp' = "log" THEN Append(queue, nextId) ELSE queue
             IN  /\ Len(b) = Min(Len(q), EffBatchSize)
                 /\ b = SubSeq(q, 1, Len(b))
                 /\ queue' = SubSeq(q, Len(b) + 1, Len(q))
      /\ \A b \in inflight' : Len(b) <= EffBatchSize
    ]_vars

\* a retry timer's flush took a full batch and left entries queued
C24_Witness ==
  /\ lastOp = "retry"
  /\ queue # <<>>
  /\ \E b \in inflight : inflight = {b} /\ Len(b) = EffBatchSize

\* C25: once cleanup() has been called the interval timer is not armed and
\* no flush is started by it, whatever is logged and however long one waits.
C25_NoTickAfterCleanup ==
  [][ /\ cleanupPc # "idle" => lastOp' # "tick"
      /\ cleanupPc' # "idle" => ~timerActive'
    ]_vars

\* an entry logged after cleanup() has returned waits in the queue
C25_Witness ==
  /\ cleanupPc = "resolved"
  /\ lastOp = "log"
  /\ queue # <<>>
  /\ inflight = {}

\* C26: cleanup() cancels no retry timer: from its call on, the number of
\* pending retry timers goes down only when one of them fires, and a retry
\* timer that fires, also after cleanup() has returned, dispatches a request
\* for the head of the queue.
C26_RetryTimersSurviveCleanup ==
  [][ /\ (cleanupPc' # "idle" /\ lastOp' # "retry") => retryTimers' >= retryTimers
      /\ (lastOp' = "retry" /\ queue # <<>>) =>
           (Batch(queue) \notin inflight /\ Batch(queue) \in inflight')
    ]_vars

\* the final flush of cleanup() failed, cleanup() returned, and the retry
\* timer of that failure then sent the batch again
C26_Witness ==
  /\ cleanupPc = "resolved"
  /\ lastOp = "retry"
  /\ cleanupBatch # <<>>
  /\ cleanupBatch \in inflight

\* C27: the entry a transport is handed carries the Logger's default context
\* merged with the context of the call, the call's keys winning: on a Logger
\* made by withContext(extra) every key of extra is a key of the entry's
\* context.
C27_EntryCarriesDefaultContext ==
  emitted.made =>
    \A k \in CtxKeys :
      /\ emitted.context[k] =
           (IF emitted.call[k] # Absent THEN emitted.call[k] ELSE child.defaultContext[k])
      /\ child.extra[k] # Absent => emitted.context[k] # Absent

\* the entries waiting or in flight in RemoteTransport r
HeldBy(r) == Range(remotes[r].queue) \cup UNION {Range(b) : b \in remotes[r].inflight}

\* C28: no RemoteTransport is shared by Loggers: every Logger made by the
\* constructor or by withContext() has a RemoteTransport of its own, an entry
\* logged on one Logger is never in the queue of another Logger's transport,
\* and a call of log or cleanup() on one Logger leaves the queue, the retry
\* counter and the recurring timer of every other Logger's transport as they
\* were.
C28_QueueNotShared ==
  /\ [](\A i, j \in DOMAIN loggers :
         (i # j /\ loggers[i].remote # 0) => loggers[i].remote # loggers[j].remote)
  /\ [](\A i \in DOMAIN loggers : \A e \in DOMAIN loggedOn :
         (loggers[i].remote # 0 /\ e \in HeldBy(loggers[i].remote)) => loggedOn[e] = i)
  /\ [][\A j \in DOMAIN loggers :
         (ownOp'.op \in {"log", "cleanup"} /\ ownOp'.logger # j /\ loggers[j].remote # 0)
           => remotes'[loggers[j].remote] = remotes[loggers[j].remote]]_vars

\* the first Logger has been cleaned up while a Logger derived from it holds
\* a queued entry and still has its recurring timer
C28_Witness ==
  /\ ownOp = [op |-> "cleanup", logger |-> 1]
  /\ Len(loggers) > 1
  /\ loggers[1].remote # 0
  /\ ~remotes[loggers[1].remote].timer
  /\ \E j \in DOMAIN loggers :
       /\ j # 1
       /\ remotes[loggers[j].remote].queue # <<>>
       /\ remotes[loggers[j].remote].timer

\* no entry has been carried by more than maxRetries + 1 requests
NeverOverSent == \A e \in Entries : sendCount[e] <= EffMaxRetries + 1

\* an abandoned entry has had its first request and maxRetries retries
NeverAbandonedEarly == \A e \in Range(fallback) : sendCount[e] >= EffMaxRetries + 1

\* C29: the retry ceiling holds for each batch whatever happens to the other
\* batches of the transport between its attempts: no entry is carried by more
\* than maxRetries + 1 requests, and no entry is abandoned before it has had
\* maxRetries retries.
C29_RetryCeilingPerBatch == NeverOverSent /\ NeverAbandonedEarly

\* the four guards of the level methods are the threshold on the order
\* debug < info < warn < error
GuardsAreThreshold ==
  \A level, threshold \in Levels :
    LevelPasses(level, threshold) <=> Rank(level) >= Rank(threshold)

\* the number of times the last call handed its entry to transport i
Deliveries(i) == Len(EntriesOf(i, calls))

\* on a Logger none of whose transports throws, the last call reached every
\* transport once if its level is at or above the threshold, and none otherwise
ThresholdExactUnlessThrown ==
  (lastCall.level \in Levels /\ ~Throws(transports)) =>
    /\ GuardsAreThreshold
    /\ \A i \in 1..Len(transports) :
         Deliveries(i) = IF Rank(lastCall.level) >= Rank(lgConfig.level) THEN 1 ELSE 0

\* C30: level filtering is exactly the threshold on debug < info < warn <
\* error: under each of the four thresholds a call at or above the threshold
\* reaches every registered transport exactly once and a call below it reaches
\* none; an error-level call reaches every transport under every threshold.
C30_ThresholdExact ==
  lastCall.level \in Levels =>
    \A i \in 1..Len(transports) :
      /\ Deliveries(i) = IF Rank(lastCall.level) >= Rank(lgConfig.level) THEN 1 ELSE 0
      /\ lastCall.level = "error" => Deliveries(i) = 1

TypeOK ==
  /\ config \in Configs
  /\ queue \in Seq(Entries)
  /\ retryCount \in 0..RetryCeil
  /\ retryTimers \in 0..MaxTimers
  /\ cleanupPc \in {"idle", "awaiting", "resolved"}
  /\ nextId \in 1..(MaxLog + 1)
====
